---- MODULE Spec2Model ----
(***************************************************************************)
(* Strings-Analyzer-Api: the analyzer (utils/analyzer.js), the natural-    *)
(* language parser (utils/nlParser.js, two copies), the Mongoose model     *)
(* (models/stringModel.js) and the request handlers of the controller      *)
(* (controller/stringController.js, two distinct copies).                  *)
(*                                                                         *)
(* A JavaScript string is a sequence of characters; a character is a       *)
(* one-character TLA+ string, except the astral character U+1F600, which   *)
(* is written "U+1F600" and occupies two UTF-16 code units.                *)
(***************************************************************************)
EXTENDS Integers, Sequences, FiniteSets, TLC

(* ------------------------------ bounds --------------------------------- *)

\* The clock (Date.now() in milliseconds) takes the values 0..MaxClock.
MaxClock == 1

\* A natural-language sentence is made of at most MaxFrags fragments.
MaxFrags == 3

(* ---------------------------- characters ------------------------------- *)

LowerLetters ==
  << "a", "b", "c", "d", "e", "f", "g", "h", "i", "j", "k", "l", "m",
     "n", "o", "p", "q", "r", "s", "t", "u", "v", "w", "x", "y", "z" >>

UpperLetters ==
  << "A", "B", "C", "D", "E", "F", "G", "H", "I", "J", "K", "L", "M",
     "N", "O", "P", "Q", "R", "S", "T", "U", "V", "W", "X", "Y", "Z" >>

DigitChars == << "0", "1", "2", "3", "4", "5", "6", "7", "8", "9" >>

Astral == "U+1F600"

Range(s) == { s[i] : i \in DOMAIN s }

IndexOf(ch, tbl) == CHOOSE k \in DOMAIN tbl : tbl[k] = ch

LowerSet == Range(LowerLetters)

UpperSet == Range(UpperLetters)

DigitSet == Range(DigitChars)

IsLower(ch) == ch \in LowerSet

IsUpper(ch) == ch \in UpperSet

IsDigit(ch) == ch \in DigitSet

\* \s of a JavaScript regular expression, and the characters trim() removes
IsSpace(ch) == ch \in { " ", "\t", "\n" }

\* \w of a JavaScript regular expression: [A-Za-z0-9_]
IsWordChar(ch) == IsLower(ch) \/ IsUpper(ch) \/ IsDigit(ch) \/ ch = "_"

\* String.prototype.toLowerCase, character by character
LowerOf == [ ch \in UpperSet |-> LowerLetters[IndexOf(ch, UpperLetters)] ]

LowerChar(ch) == IF IsUpper(ch) THEN LowerOf[ch] ELSE ch

toLowerCase(s) == [ i \in DOMAIN s |-> LowerChar(s[i]) ]

\* The UTF-16 code units of a character (the items of value.split(""))
CodeUnits(ch) == IF ch = Astral THEN << "\\uD83D", "\\uDE00" >> ELSE << ch >>

\* The UTF-8 bytes of a character (what hash.update(value, "utf8") reads)
Utf8Char(ch) ==
  CASE IsLower(ch) -> << 96 + IndexOf(ch, LowerLetters) >>
    [] IsUpper(ch) -> << 64 + IndexOf(ch, UpperLetters) >>
    [] IsDigit(ch) -> << 47 + IndexOf(ch, DigitChars) >>
    [] ch = " "    -> << 32 >>
    [] ch = "\t"   -> << 9 >>
    [] ch = "\n"   -> << 10 >>
    [] ch = ","    -> << 44 >>
    [] ch = "-"    -> << 45 >>
    [] ch = "_"    -> << 95 >>
    [] ch = Astral -> << 240, 159, 152, 128 >>

RECURSIVE Flatten(_, _)
\* f applied to every character of s, the results concatenated
Flatten(s, which) ==
  IF s = << >> THEN << >>
  ELSE (IF which = "utf8" THEN Utf8Char(Head(s)) ELSE CodeUnits(Head(s)))
       \o Flatten(Tail(s), which)

Utf8(s) == Flatten(s, "utf8")

Utf16(s) == Flatten(s, "utf16")

Reverse(s) == [ i \in DOMAIN s |-> s[Len(s) + 1 - i] ]

(* ------------------------- utils/analyzer.js --------------------------- *)

\* The digest is a function of the hashed bytes alone and SHA-256 is taken
\* to be collision free: the digest is written as the bytes under a tag.
sha256Hex(value) == << "sha256" >> \o Utf8(value)

\* for (const ch of value) map[ch] = (map[ch] || 0) + 1
charFrequencyMap(value) ==
  [ ch \in Range(value) |-> Cardinality({ i \in DOMAIN value : value[i] = ch }) ]

\* value.replace(/\s+/g, "")
StripSpace(s) == SelectSeq(s, LAMBDA ch : ~IsSpace(ch))

\* An isPalindrome that does not lower-case
isPalindromeCaseSensitive(value) ==
  Utf16(StripSpace(value)) = Reverse(Utf16(StripSpace(value)))

isPalindrome(value) ==
  LET normalized == toLowerCase(StripSpace(value))
      rev        == Reverse(Utf16(normalized))
  IN  Utf16(normalized) = rev

\* value.trim().split(/\s+/).length: the maximal runs of non-space characters
wordCount(value) ==
  IF \A i \in DOMAIN value : IsSpace(value[i]) THEN 0
  ELSE Cardinality({ i \in DOMAIN value :
                       /\ ~IsSpace(value[i])
                       /\ (i = 1 \/ IsSpace(value[i - 1])) })

analyze(value) ==
  LET freq == charFrequencyMap(value)
  IN  [ length                  |-> Len(Utf16(value)),
        is_palindrome           |-> isPalindrome(value),
        unique_characters       |-> Cardinality(DOMAIN freq),
        word_count              |-> wordCount(value),
        sha256_hash             |-> sha256Hex(value),
        character_frequency_map |-> freq ]

(* ------------------- regular expressions of nlParser ------------------- *)

\* The literal texts of the patterns
L_single ==
  << "s", "i", "n", "g", "l", "e" >>

L_one ==
  << "o", "n", "e" >>

L_word ==
  << "w", "o", "r", "d" >>

L_palindrome ==
  << "p", "a", "l", "i", "n", "d", "r", "o", "m", "e" >>

L_palindromic ==
  << "p", "a", "l", "i", "n", "d", "r", "o", "m", "i", "c" >>

L_string ==
  << "s", "t", "r", "i", "n", "g" >>

L_strings ==
  << "s", "t", "r", "i", "n", "g", "s" >>

L_longer_than ==
  << "l", "o", "n", "g", "e", "r", " ", "t", "h", "a", "n", " " >>

L_shorter_than ==
  << "s", "h", "o", "r", "t", "e", "r", " ", "t", "h", "a", "n", " " >>

L_containing_the_letter ==
  << "c", "o", "n", "t", "a", "i", "n", "i", "n", "g", " ", "t", "h", "e",
     " ", "l", "e", "t", "t", "e", "r" >>

L_containing ==
  << "c", "o", "n", "t", "a", "i", "n", "i", "n", "g" >>

L_contains ==
  << "c", "o", "n", "t", "a", "i", "n", "s" >>

L_first_vowel ==
  << "f", "i", "r", "s", "t", " ", "v", "o", "w", "e", "l" >>

\* The words "true" and "false" of the is_palindrome parameter
L_true == << "t", "r", "u", "e" >>

L_false == << "f", "a", "l", "s", "e" >>

\* The literal lit stands in q at index i
LitAt(q, i, lit) ==
  /\ i >= 1
  /\ i + Len(lit) - 1 <= Len(q)
  /\ \A k \in 1..Len(lit) : q[i + k - 1] = lit[k]

\* \b holds in front of index i (i = Len(q) + 1 is the end of q)
Boundary(q, i) ==
  LET before == i > 1 /\ i - 1 <= Len(q) /\ IsWordChar(q[i - 1])
      after  == i >= 1 /\ i <= Len(q) /\ IsWordChar(q[i])
  IN  before # after

\* /\b(?:l1|l2|...)\b/.test(q) for the literals of lits
TestWords(q, lits) ==
  \E i \in 1..Len(q) :
    /\ Boundary(q, i)
    /\ \E lit \in lits : LitAt(q, i, lit) /\ Boundary(q, i + Len(lit))

\* Where (\d+) ends when it starts at index j: the digits are taken greedily
RECURSIVE DigitsEnd(_, _)
DigitsEnd(q, j) ==
  IF j <= Len(q) /\ IsDigit(q[j]) THEN DigitsEnd(q, j + 1) ELSE j - 1

\* The value of a run of decimal digits
RECURSIVE DecimalValue(_)
DecimalValue(ds) ==
  IF ds = << >> THEN 0
  ELSE 10 * DecimalValue(SubSeq(ds, 1, Len(ds) - 1))
       + (IndexOf(ds[Len(ds)], DigitChars) - 1)

\* parseInt(s, 10): leading white space, an optional sign, then the longest
\* run of digits; {} stands for NaN.
parseInt(s) ==
  LET first == IF \E i \in DOMAIN s : ~IsSpace(s[i])
               THEN CHOOSE i \in DOMAIN s :
                      ~IsSpace(s[i]) /\ \A k \in 1..(i - 1) : IsSpace(s[k])
               ELSE Len(s) + 1
      signed == first <= Len(s) /\ s[first] \in { "-", "+" }
      start  == IF signed THEN first + 1 ELSE first
      end    == DigitsEnd(s, start)
      n      == DecimalValue(SubSeq(s, start, end))
  IN  IF end < start THEN {}
      ELSE IF signed /\ s[first] = "-" THEN { 0 - n } ELSE { n }

\* q.match(/lit(\d+)/): the capture of the leftmost match, {} without one
MatchNumber(q, lit) ==
  LET hits == { i \in 1..Len(q) :
                  /\ LitAt(q, i, lit)
                  /\ i + Len(lit) <= Len(q)
                  /\ IsDigit(q[i + Len(lit)]) }
  IN  IF hits = {} THEN {}
      ELSE LET i == CHOOSE h \in hits : \A g \in hits : h <= g
               j == i + Len(lit)
           IN  { SubSeq(q, j, DigitsEnd(q, j)) }

\* One alternative "lit (X)" of the contains pattern matches at index i
AltAt(q, i, lit, letterOnly) ==
  /\ LitAt(q, i, lit \o << " " >>)
  /\ i + Len(lit) + 1 <= Len(q)
  /\ IF letterOnly THEN IsLower(q[i + Len(lit) + 1]) \/ IsUpper(q[i + Len(lit) + 1])
     ELSE IsWordChar(q[i + Len(lit) + 1])

\* The capture of the contains pattern: the leftmost index where an
\* alternative matches, and there the first alternative, in the order
\* written, that does. alts is the sequence of literals.
MatchContains(q, alts, letterOnly) ==
  LET hits == { i \in 1..Len(q) : \E k \in DOMAIN alts : AltAt(q, i, alts[k], letterOnly) }
  IN  IF hits = {} THEN {}
      ELSE LET i == CHOOSE h \in hits : \A g \in hits : h <= g
               k == CHOOSE a \in DOMAIN alts :
                      /\ AltAt(q, i, alts[a], letterOnly)
                      /\ \A b \in 1..(a - 1) : ~AltAt(q, i, alts[b], letterOnly)
           IN  { q[i + Len(alts[k]) + 1] }

ContainsAlternatives == << L_containing_the_letter, L_containing, L_contains >>

(* -------------------------- utils/nlParser.js -------------------------- *)

\* The filters a sentence is compiled to: a field is {} (not set) or { v }
NoFilters ==
  [ word_count |-> {}, is_palindrome |-> {}, min_length |-> {},
    max_length |-> {}, contains_character |-> {} ]

\* Object.keys(parsed).length
KeyCount(parsed) ==
  Cardinality({ k \in DOMAIN parsed : parsed[k] # {} })

\* What a call of parseNaturalLanguage ends with: a returned object (kind
\* "ok"), a thrown error whose code is UNPARSEABLE, or a thrown error
\* without a code (kind "Error")
Returned(parsed) == [ kind |-> "ok", spec |-> { parsed } ]

Thrown(code) == [ kind |-> code, spec |-> {} ]

\* A parser that returns whatever it has collected, empty or not
ParseResultAlways(parsed) == [ kind |-> "ok", spec |-> { parsed } ]

\* if (Object.keys(parsed).length === 0) throw UNPARSEABLE; return parsed
ParseResult(parsed) ==
  IF KeyCount(parsed) = 0 THEN Thrown("UNPARSEABLE") ELSE Returned(parsed)

\* !query.trim()
TrimsToEmpty(s) == \A i \in DOMAIN s : IsSpace(s[i])

\* The texts of single[- ]?word|one[- ]?word
SingleWordTexts1 ==
  { pre \o sep \o L_word :
      pre \in { L_single, L_one }, sep \in { << >>, << "-" >>, << " " >> } }

\* The texts of single[- ]?word
SingleWordTexts2 ==
  { L_single \o sep \o L_word : sep \in { << >>, << "-" >>, << " " >> } }

\* The texts of one[- ]word
OneWordTexts2 == { L_one \o sep \o L_word : sep \in { << "-" >>, << " " >> } }

\* The texts of palindrom(e|ic|ic strings?)
PalindromeTexts2 ==
  { L_palindrome, L_palindromic,
    L_palindromic \o << " " >> \o L_string,
    L_palindromic \o << " " >> \o L_strings }

\* /\b(?:single[- ]?word|one[- ]?word)\b/
SingleWordRule1(q) == TestWords(q, SingleWordTexts1)

\* /\bsingle[- ]?word\b/.test(q) || /\bone[- ]word\b/.test(q)
SingleWordRule2(q) == TestWords(q, SingleWordTexts2) \/ TestWords(q, OneWordTexts2)

\* /\bpalindrom(?:e|ic)\b/
PalindromeRule1(q) == TestWords(q, { L_palindrome, L_palindromic })

\* /\bpalindrom(e|ic|ic strings?)\b/.test(q) || /\bpalindromic\b/.test(q)
PalindromeRule2(q) == TestWords(q, PalindromeTexts2) \/ TestWords(q, { L_palindromic })

\* A longer-than rule that keeps N as the bound
LongerRuleSameBound(q) == UNION { parseInt(m) : m \in MatchNumber(q, L_longer_than) }

\* longer than N -> min_length = N + 1
LongerRule(q) == { n + 1 : n \in UNION { parseInt(m) : m \in MatchNumber(q, L_longer_than) } }

\* shorter than N -> max_length = N - 1
ShorterRule(q) == { n - 1 : n \in UNION { parseInt(m) : m \in MatchNumber(q, L_shorter_than) } }

\* /(?:containing the letter|containing|contains) ([a-z])/i, lower-cased
ContainsRule1(q) == { LowerChar(ch) : ch \in MatchContains(q, ContainsAlternatives, TRUE) }

\* /containing the letter (\w)|containing (\w)|contains (\w)/
ContainsRule2(q) == MatchContains(q, ContainsAlternatives, FALSE)

\* /\bfirst vowel\b/
FirstVowelRule(q) == TestWords(q, { L_first_vowel })

\* parsed.contains_character = parsed.contains_character || "a"
FirstVowel1(contains, vowel) ==
  IF vowel /\ contains = {} THEN { "a" } ELSE contains

\* parsed.contains_character = "a"
FirstVowel2(contains, vowel) ==
  IF vowel THEN { "a" } ELSE contains

\* The first copy of parseNaturalLanguage
parseNaturalLanguage1(sentence) ==
  IF TrimsToEmpty(sentence) THEN Thrown("Error")
  ELSE LET q == toLowerCase(sentence)
       IN  ParseResult(
             [ word_count         |-> IF SingleWordRule1(q) THEN { 1 } ELSE {},
               is_palindrome      |-> IF PalindromeRule1(q) THEN { TRUE } ELSE {},
               min_length         |-> LongerRule(q),
               max_length         |-> ShorterRule(q),
               contains_character |-> FirstVowel1(ContainsRule1(q), FirstVowelRule(q)) ])

\* The second copy of parseNaturalLanguage
parseNaturalLanguage2(sentence) ==
  IF sentence = << >> THEN Thrown("Error")
  ELSE LET q == toLowerCase(sentence)
       IN  ParseResult(
             [ word_count         |-> IF SingleWordRule2(q) THEN { 1 } ELSE {},
               is_palindrome      |-> IF PalindromeRule2(q) THEN { TRUE } ELSE {},
               min_length         |-> LongerRule(q),
               max_length         |-> ShorterRule(q),
               contains_character |-> FirstVowel2(ContainsRule2(q), FirstVowelRule(q)) ])

\* The copy of the parser that is deployed
parseNaturalLanguage(ver, sentence) ==
  IF ver = 1 THEN parseNaturalLanguage1(sentence) ELSE parseNaturalLanguage2(sentence)

(* ------------------------------- state --------------------------------- *)

Clients == { 1, 2 }

VARIABLES
  store,              \* the AnalyzedString collection: a set of documents
  now,                \* the clock that new Date() reads
  pc,                 \* pc[c]: where the handler serving client c stands
  rq,                 \* rq[c]: the request client c has sent
  resp,               \* resp[c]: the answer to the last request of client c
  parserVersion,      \* which copy of utils/nlParser.js is deployed
  controllerVersion,  \* which copy of the controller is deployed
  query,              \* a sentence handed to parseNaturalLanguage directly
  outcome,            \* what parseNaturalLanguage made of that sentence
  text,               \* a string handed to analyze directly
  analysis            \* what analyze returned for that string

vars ==
  << store, now, pc, rq, resp, parserVersion, controllerVersion, query, outcome,
     text, analysis >>

(* --------------------------- request inputs ---------------------------- *)

\* The strings the clients send as values and as path parameters
Values == { << >>, << "a" >>, << "A" >>, << "b", " ", "a" >> }

\* req.query of GET /strings: every parameter is absent ({}) or one string
NoParams ==
  [ is_palindrome |-> {}, min_length |-> {}, max_length |-> {},
    word_count |-> {}, contains_character |-> {} ]

\* t is the JavaScript type of the input, s its characters when a string,
\* f the query parameters of a listing
Input(t, s, f) == [ t |-> t, s |-> s, f |-> f ]

\* req.body.value of POST /strings
Bodies ==
  { Input("string", v, NoParams) : v \in Values }
    \cup { Input(t, << >>, NoParams) : t \in { "undefined", "null", "number" } }

\* req.params.string_value: the router matches a non-empty path segment
PathParams == { Input("string", v, NoParams) : v \in Values \ { << >> } }

\* The sentences the clients send to GET /strings/filter-by-natural-language
Sentences ==
  { << " " >> \o L_single \o << " " >> \o L_word \o << " " >> \o L_strings,
    L_palindromic \o << " " >> \o L_strings \o << " " >> \o L_longer_than \o << "0" >>,
    L_strings \o << " " >> \o L_shorter_than \o << "4", " " >>
      \o L_containing_the_letter \o << " ", "a" >>,
    L_longer_than \o << "2", " " >> \o L_shorter_than \o << "2" >>,
    L_shorter_than \o << "0" >>,
    L_contains \o << " ", "Z", " " >> \o L_first_vowel,
    L_strings \o << " " >> \o L_containing \o << " ", "B" >>,
    << "b", "a", "n", "a", "n", "a" >>,
    << " " >>,
    << >> }

\* req.query.query: a sentence, or nothing
NLInputs ==
  { Input("string", t, NoParams) : t \in Sentences }
    \cup { Input("undefined", << >>, NoParams) }

\* req.query of GET /strings: every combination of these accepted values ...
AcceptedListInputs ==
  { Input("query", << >>,
          [ is_palindrome      |-> a,
            min_length         |-> b,
            max_length         |-> d,
            word_count         |-> e,
            contains_character |-> g ]) :
      a \in { {}, { L_true } },
      b \in { {}, { << "1" >> }, { << "2" >> } },
      d \in { {}, { << "1" >> }, { << "3" >> } },
      e \in { {}, { << "1" >> } },
      g \in { {}, { << "a" >> }, { << "A" >> } } }

\* ... and one parameter alone, with a value the handler may refuse
SingleListInputs ==
  { Input("query", << >>, [ NoParams EXCEPT ![k] = { v } ]) :
      k \in { "is_palindrome", "min_length", "contains_character" },
      v \in { L_false, << "y", "e", "s" >>, << "x" >>, << "-", "1" >>,
              << "a", "b" >>, << Astral >> } }

ListInputs == AcceptedListInputs \cup SingleListInputs

\* doc is the document the handler holds ({} when none); after is, while the
\* request is served, its value when the client's preceding request was a
\* deleteString of the same value that was answered 204 ({} otherwise)
NoRequest ==
  [ op |-> "none", in |-> Input("undefined", << >>, NoParams), doc |-> {}, after |-> {} ]

(* ------------------------------ answers -------------------------------- *)

\* res.status(status).json(...): error is the "error" field of the body, id
\* its "id" field when it has one, docs the documents it carries, parsed the
\* interpreted filters.
Answer(status, error, id, docs, parsed) ==
  [ status |-> status, error |-> error, id |-> id, docs |-> docs, parsed |-> parsed ]

Pending == Answer(0, "", {}, << >>, {})

\* The answer to a rejected input: status 422 in the first copy of the
\* controller, 400 in the second
Rejected(ver, error) == Answer(IF ver = 1 THEN 422 ELSE 400, error, {}, << >>, {})

(* ---------------------- models/stringModel.js -------------------------- *)

\* The schema's required validators. A String path that is required rejects
\* null, undefined and the empty string; a required Number, Boolean or Mixed
\* path rejects null and undefined only.
StringSchemaValid(doc) == Len(doc.value) > 0 /\ Len(doc._id) > 0

\* AnalyzedString.findById(id): the documents with that _id
findById(coll, id) == { d \in coll : d._id = id }

\* A collection that does not enforce the uniqueness of _id
NoUniqueIndex(coll, doc) == FALSE

\* The unique index on _id: an insert of a present _id is rejected (E11000)
DuplicateKey(coll, doc) == findById(coll, doc._id) # {}

\* The collection after a successful insert
Inserted(coll, doc) == coll \cup { doc }

\* A delete that removes nothing
DeletedNothing(coll, id) == coll

\* A delete that also removes the records whose value differs in case only
DeletedIgnoringCase(coll, id) ==
  { d \in coll : d._id # id /\ sha256Hex(toLowerCase(d.value)) # id }

\* AnalyzedString.findByIdAndDelete(id)
Deleted(coll, id) == coll \ findById(coll, id)

(* ------------------ controller: createString --------------------------- *)

Begin(c, op, in) ==
  /\ pc[c] = "idle"
  /\ pc' = [pc EXCEPT ![c] = op]
  /\ rq' = [rq EXCEPT ![c] = [ op |-> op, in |-> in, doc |-> {},
                                after |-> IF /\ rq[c].op = "delete"
                                             /\ resp[c].status = 204
                                             /\ rq[c].in = in
                                          THEN { in.s } ELSE {} ]]
  /\ resp' = [resp EXCEPT ![c] = Pending]
  /\ UNCHANGED << store, now, parserVersion, controllerVersion, query, outcome,
               text, analysis >>

\* The handler answers; rq[c] keeps the request that was answered
Finish(c, answer) ==
  /\ pc' = [pc EXCEPT ![c] = "idle"]
  /\ rq' = [rq EXCEPT ![c].doc = {}, ![c].after = {}]
  /\ resp' = [resp EXCEPT ![c] = answer]

\* What createString answers before it reads the store, if anything
CreateRejects(ver, in) ==
  IF ver = 1
  THEN IF in.t \in { "undefined", "null" }
       THEN { Answer(422, "value field is required", {}, << >>, {}) }
       ELSE IF in.t # "string"
       THEN { Answer(422, "value must be a string", {}, << >>, {}) } ELSE {}
  ELSE IF in.t = "undefined"
       THEN { Answer(400, "value field is required", {}, << >>, {}) }
       ELSE IF in.t # "string"
       THEN { Answer(422, "value must be a string", {}, << >>, {}) } ELSE {}

\* POST /strings up to the answer of findById
CreateCheck(c) ==
  /\ pc[c] = "create"
  /\ LET in == rq[c].in
         id == analyze(in.s).sha256_hash
     IN  IF CreateRejects(controllerVersion, in) # {}
         THEN \E answer \in CreateRejects(controllerVersion, in) : Finish(c, answer)
         ELSE IF findById(store, id) # {}
         THEN Finish(c, Answer(409, "String already exists", { id }, << >>, {}))
         ELSE /\ pc' = [pc EXCEPT ![c] = "build"]
              /\ UNCHANGED << rq, resp >>
  /\ UNCHANGED << store, now, parserVersion, controllerVersion, query, outcome,
               text, analysis >>

\* The document createString builds once findById has answered null
NewDoc(value, time) ==
  LET properties == analyze(value)
  IN  [ _id |-> properties.sha256_hash, value |-> value,
        properties |-> properties, created_at |-> time ]

\* doc = {..., created_at: new Date()} and the validation of create(doc)
CreateBuild(c) ==
  /\ pc[c] = "build"
  /\ LET doc == NewDoc(rq[c].in.s, now)
     IN  IF StringSchemaValid(doc)
         THEN /\ pc' = [pc EXCEPT ![c] = "insert"]
              /\ rq' = [rq EXCEPT ![c].doc = { doc }]
              /\ UNCHANGED resp
         ELSE Finish(c, Answer(500, "validation failed: Path value is required",
                               {}, << >>, {}))
  /\ UNCHANGED << store, now, parserVersion, controllerVersion, query, outcome,
               text, analysis >>

\* The answers of createString to the outcome of the insert
CreateAnswer(doc, duplicate) ==
  IF duplicate THEN Answer(500, "E11000 duplicate key error", {}, << >>, {})
  ELSE Answer(201, "", { doc._id }, << doc >>, {})

\* The store executes the insert of create(doc) and the handler answers
CreateInsert(c) ==
  /\ pc[c] = "insert"
  /\ \E doc \in rq[c].doc :
       /\ store' = IF DuplicateKey(store, doc) THEN store ELSE Inserted(store, doc)
       /\ Finish(c, CreateAnswer(doc, DuplicateKey(store, doc)))
  /\ UNCHANGED << now, parserVersion, controllerVersion, query, outcome,
               text, analysis >>

(* --------------- controller: getStringByValue, deleteString ------------ *)

getStringByValue(c) ==
  /\ pc[c] = "get"
  /\ LET id == sha256Hex(rq[c].in.s)
     IN  IF findById(store, id) = {}
         THEN Finish(c, Answer(404, "String not found", {}, << >>, {}))
         ELSE \E doc \in findById(store, id) :
                Finish(c, Answer(200, "", { doc._id }, << doc >>, {}))
  /\ UNCHANGED << store, now, parserVersion, controllerVersion, query, outcome,
               text, analysis >>

deleteString(c) ==
  /\ pc[c] = "delete"
  /\ LET id == sha256Hex(rq[c].in.s)
     IN  /\ store' = Deleted(store, id)
         /\ IF findById(store, id) = {}
            THEN Finish(c, Answer(404, "String not found", {}, << >>, {}))
            ELSE Finish(c, Answer(204, "", {}, << >>, {}))
  /\ UNCHANGED << now, parserVersion, controllerVersion, query, outcome,
               text, analysis >>

(* ------------- controller: getAllStrings, filterByNaturalLanguage ------ *)

\* The query object handed to AnalyzedString.find: a condition is {} (not
\* set) or { v }. character is the ch of "properties.character_frequency_map.ch".
NoConditions ==
  [ is_palindrome |-> {}, gte |-> {}, lte |-> {}, word_count |-> {}, character |-> {} ]

\* The first copy of getAllStrings lower-cases contains_character
ListedCharacter(ver, s) == IF ver = 1 THEN toLowerCase(s) ELSE s

\* The validation of getAllStrings, in the order of the code: the error of
\* the first parameter that is rejected, {} when none is
ListRejects(ver, f) ==
  IF \E s \in f.is_palindrome : s # L_true /\ s # L_false
  THEN { Rejected(ver, "is_palindrome must be true or false") }
  ELSE IF \E s \in f.min_length : parseInt(s) = {}
  THEN { Rejected(ver, "min_length must be integer") }
  ELSE IF \E s \in f.max_length : parseInt(s) = {}
  THEN { Rejected(ver, "max_length must be integer") }
  ELSE IF \E s \in f.word_count : parseInt(s) = {}
  THEN { Rejected(ver, "word_count must be integer") }
  ELSE IF \E s \in f.contains_character : Len(Utf16(s)) # 1
  THEN { Rejected(ver, "contains_character must be a single character") }
  ELSE {}

\* A getAllStrings that takes max_length for an exclusive bound
ListQueryExclusive(ver, f) ==
  [ is_palindrome |-> { s = L_true : s \in f.is_palindrome },
    gte           |-> UNION { parseInt(s) : s \in f.min_length },
    lte           |-> { n - 1 : n \in UNION { parseInt(s) : s \in f.max_length } },
    word_count    |-> UNION { parseInt(s) : s \in f.word_count },
    character     |-> { ListedCharacter(ver, s)[1] : s \in f.contains_character } ]

\* The query getAllStrings builds from req.query
ListQuery(ver, f) ==
  [ is_palindrome |-> { s = L_true : s \in f.is_palindrome },
    gte           |-> UNION { parseInt(s) : s \in f.min_length },
    lte           |-> UNION { parseInt(s) : s \in f.max_length },
    word_count    |-> UNION { parseInt(s) : s \in f.word_count },
    character     |-> { ListedCharacter(ver, s)[1] : s \in f.contains_character } ]

\* A filterByNaturalLanguage that takes min_length for an exclusive bound
NLQueryExclusive(ver, parsed) ==
  [ is_palindrome |-> parsed.is_palindrome,
    gte           |-> { n + 1 : n \in parsed.min_length },
    lte           |-> parsed.max_length,
    word_count    |-> parsed.word_count,
    character     |-> parsed.contains_character ]

\* The query filterByNaturalLanguage builds from the parsed filters. The
\* first copy applies Boolean() and String().toLowerCase() and drops a
\* character that is not one code unit long; the second copies the fields.
NLQuery(ver, parsed) ==
  [ is_palindrome |-> parsed.is_palindrome,
    gte           |-> parsed.min_length,
    lte           |-> parsed.max_length,
    word_count    |-> parsed.word_count,
    character     |-> IF ver = 1
                      THEN { LowerChar(ch) : ch \in { x \in parsed.contains_character :
                                                        Len(CodeUnits(LowerChar(x))) = 1 } }
                      ELSE parsed.contains_character ]

\* { $exists: true, $gt: 0 } on properties.character_frequency_map.ch
HasCharacter(doc, ch) ==
  /\ ch \in DOMAIN doc.properties.character_frequency_map
  /\ doc.properties.character_frequency_map[ch] > 0

\* A document satisfies a query object: every condition that is set holds
Satisfies(doc, q) ==
  /\ \A b \in q.is_palindrome : doc.properties.is_palindrome = b
  /\ \A n \in q.gte : doc.properties.length >= n
  /\ \A n \in q.lte : doc.properties.length <= n
  /\ \A n \in q.word_count : doc.properties.word_count = n
  /\ \A ch \in q.character : HasCharacter(doc, ch)

\* AnalyzedString.find(q): the documents that satisfy q
find(coll, q) == { d \in coll : Satisfies(d, q) }

\* .sort({ created_at: -1 }): the documents from newest to oldest; the store
\* promises no order among documents of equal created_at
Sorted(docs) ==
  { order \in [ 1..Cardinality(docs) -> docs ] :
      /\ \A i, j \in DOMAIN order : i # j => order[i] # order[j]
      /\ \A i, j \in DOMAIN order : i < j => order[i].created_at >= order[j].created_at }

\* GET /strings
getAllStrings(c) ==
  /\ pc[c] = "list"
  /\ LET f == rq[c].in.f
     IN  IF ListRejects(controllerVersion, f) # {}
         THEN \E answer \in ListRejects(controllerVersion, f) : Finish(c, answer)
         ELSE \E data \in Sorted(find(store, ListQuery(controllerVersion, f))) :
                Finish(c, Answer(200, "", {}, data, {}))
  /\ UNCHANGED << store, now, parserVersion, controllerVersion, query, outcome,
               text, analysis >>

\* What filterByNaturalLanguage answers to what the parser ended with, when
\* that is not a returned object
NLFailure(result) ==
  IF result.kind = "UNPARSEABLE"
  THEN Answer(400, "Unable to parse natural language query", {}, << >>, {})
  ELSE Answer(500, "Query must be a non-empty string", {}, << >>, {})

\* GET /strings/filter-by-natural-language
filterByNaturalLanguage(c) ==
  /\ pc[c] = "nl"
  /\ LET in     == rq[c].in
         result == parseNaturalLanguage(parserVersion, in.s)
     IN  IF in.t = "undefined" \/ in.s = << >>
         THEN Finish(c, Rejected(controllerVersion, "query parameter is required"))
         ELSE IF result.kind # "ok"
         THEN Finish(c, NLFailure(result))
         ELSE \E parsed \in result.spec :
                \E data \in Sorted(find(store, NLQuery(controllerVersion, parsed))) :
                  Finish(c, Answer(200, "", {}, data, { parsed }))
  /\ UNCHANGED << store, now, parserVersion, controllerVersion, query, outcome,
               text, analysis >>

\* A millisecond passes
Tick ==
  /\ now < MaxClock
  /\ now' = now + 1
  /\ UNCHANGED << store, pc, rq, resp, parserVersion, controllerVersion, query, outcome,
               text, analysis >>

(* --------------------------- specifications ---------------------------- *)

NoOutcome == [ kind |-> "none", spec |-> {} ]

Init ==
  /\ store = {}
  /\ now = 0
  /\ pc = [ c \in Clients |-> "idle" ]
  /\ rq = [ c \in Clients |-> NoRequest ]
  /\ resp = [ c \in Clients |-> Pending ]
  /\ parserVersion \in { 1, 2 }
  /\ controllerVersion \in { 1, 2 }
  /\ query = << >>
  /\ outcome = NoOutcome
  /\ text = << >>
  /\ analysis = {}

BeginCreate(c) == \E in \in Bodies : Begin(c, "create", in)

BeginGet(c) == \E in \in PathParams : Begin(c, "get", in)

BeginDelete(c) == \E in \in PathParams : Begin(c, "delete", in)

\* Two clients whose requests interleave at every access to the store
Next ==
  \/ Tick
  \/ \E c \in Clients : BeginCreate(c)
  \/ \E c \in Clients : BeginGet(c)
  \/ \E c \in Clients : BeginDelete(c)
  \/ \E c \in Clients : CreateCheck(c)
  \/ \E c \in Clients : CreateBuild(c)
  \/ \E c \in Clients : CreateInsert(c)
  \/ \E c \in Clients : getStringByValue(c)
  \/ \E c \in Clients : deleteString(c)

Spec == Init /\ [][Next]_vars

BeginList(c) == \E in \in ListInputs : Begin(c, "list", in)

BeginNL(c) == \E in \in NLInputs : Begin(c, "nl", in)

\* One client: every request is answered before the next one is sent
NextSeq ==
  \/ Tick
  \/ BeginCreate(1)
  \/ BeginGet(1)
  \/ BeginDelete(1)
  \/ BeginList(1)
  \/ BeginNL(1)
  \/ CreateCheck(1)
  \/ CreateBuild(1)
  \/ CreateInsert(1)
  \/ getStringByValue(1)
  \/ deleteString(1)
  \/ getAllStrings(1)
  \/ filterByNaturalLanguage(1)

SpecSeq == Init /\ [][NextSeq]_vars

\* GET /strings without parameters
AllStrings == Input("query", << >>, NoParams)

BeginListAll(c) == Begin(c, "list", AllStrings)

\* GET /strings/filter-by-natural-language?query=single word strings
SingleWordStrings ==
  Input("string", L_single \o << " " >> \o L_word \o << " " >> \o L_strings, NoParams)

BeginAsk(c) == Begin(c, "nl", SingleWordStrings)

\* One client creates and deletes while both clients list
NextList ==
  \/ Tick
  \/ BeginCreate(1)
  \/ BeginDelete(1)
  \/ CreateCheck(1)
  \/ CreateBuild(1)
  \/ CreateInsert(1)
  \/ deleteString(1)
  \/ \E c \in Clients : BeginListAll(c)
  \/ \E c \in Clients : BeginAsk(c)
  \/ \E c \in Clients : getAllStrings(c)
  \/ \E c \in Clients : filterByNaturalLanguage(c)

SpecList == Init /\ [][NextList]_vars

(* ------------- parseNaturalLanguage on composed sentences -------------- *)

\* The fragments a sentence is composed of
F_single_word == << " " >> \o L_single \o << " " >> \o L_word \o << " " >>

F_palindromic == << " " >> \o L_palindromic \o << " " >>

F_longer_than == << " " >> \o L_longer_than

F_shorter_than == << " " >> \o L_shorter_than

F_containing_the_letter == << " " >> \o L_containing_the_letter \o << " " >>

F_containing == << " " >> \o L_containing \o << " " >>

F_contains == << " " >> \o L_contains \o << " " >>

F_first_vowel == << " " >> \o L_first_vowel \o << " " >>

F_apple == << "a", "p", "p", "l", "e" >>

Fragments ==
  { F_single_word, F_palindromic, F_longer_than, F_shorter_than,
    F_containing_the_letter, F_containing, F_contains, F_first_vowel, F_apple,
    << "5" >>, << "1", "0" >>, << "Z" >>, << " " >> }

\* The sentence made of the fragments of query
RECURSIVE Sentence(_)
Sentence(frags) ==
  IF frags = << >> THEN << >> ELSE Head(frags) \o Sentence(Tail(frags))

\* One more fragment is written
Type(f) ==
  /\ outcome.kind = "none"
  /\ Len(query) < MaxFrags
  /\ query' = Append(query, f)
  /\ UNCHANGED << store, now, pc, rq, resp, parserVersion, controllerVersion, outcome,
               text, analysis >>

\* parseNaturalLanguage is called with the sentence
Parse ==
  /\ outcome.kind = "none"
  /\ outcome' = parseNaturalLanguage(parserVersion, Sentence(query))
  /\ UNCHANGED << store, now, pc, rq, resp, parserVersion, controllerVersion, query,
               text, analysis >>

NextNL ==
  \/ \E f \in Fragments : Type(f)
  \/ Parse

\* The controller takes no part in a direct call of the parser
InitNL == Init /\ controllerVersion = 1

SpecNL == InitNL /\ [][NextNL]_vars

(* --------------------- analyze on composed strings --------------------- *)

\* The fragments a string is composed of
V_A_man == << "A", " ", "m", "a", "n" >>

V_a_man == << " ", "a", " ", "m", "a", "n" >>

V_comma_a_man == << ",", " ", "a", " ", "m", "a", "n" >>

V_Hello == << "H", "e", "l", "l", "o" >>

V_nama == << "n", "a", "m", "a" >>

ValueFragments ==
  { V_A_man, V_a_man, V_comma_a_man, V_Hello, V_nama,
    << "a" >>, << "A" >>, << "b" >>, << " " >>, << "," >>, << Astral >> }

\* One more fragment is written
Write(f) ==
  /\ analysis = {}
  /\ Len(text) < MaxFrags
  /\ text' = Append(text, f)
  /\ UNCHANGED << store, now, pc, rq, resp, parserVersion, controllerVersion, query,
                  outcome, analysis >>

\* analyze is called with the string
Analyze ==
  /\ analysis = {}
  /\ analysis' = { analyze(Sentence(text)) }
  /\ UNCHANGED << store, now, pc, rq, resp, parserVersion, controllerVersion, query,
                  outcome, text >>

NextAnalyze ==
  \/ \E f \in ValueFragments : Write(f)
  \/ Analyze

\* Neither the parser nor the controller takes part in a call of analyze
InitAnalyze == Init /\ parserVersion = 1 /\ controllerVersion = 1

SpecAnalyze == InitAnalyze /\ [][NextAnalyze]_vars

(* ============================== claims ================================= *)

\* The identifier createString reports for a value
IdOf(value) == sha256Hex(value)

\* The client's last request has been answered
Answered(c, op) == pc[c] = "idle" /\ rq[c].op = op /\ resp[c].status # 0

(* ---- C1 ---- *)

\* C1: when two createString requests for the same value interleave, the
\* insert the store refuses for its duplicate _id is answered as Conflict
\* (409) carrying the identifier, never as an internal error.
C1_RefusedInsertAnswersConflict ==
  [][ \A c \in Clients : \A doc \in rq[c].doc :
        (pc[c] = "insert" /\ pc'[c] = "idle" /\ findById(store, doc._id) # {})
          => (resp'[c].status = 409 /\ resp'[c].id = { doc._id }) ]_vars

(* ---- C2 ---- *)

\* C2: with requests in sequence, a createString of a string value is
\* answered as created (201) when the store has no record of the value and as
\* Conflict (409) when it has one, both with the identifier of the value, and
\* the Conflict leaves the store unchanged.
C2_CreateThenConflict ==
  [][ (pc[1] \in { "create", "build", "insert" } /\ pc'[1] = "idle"
         /\ rq[1].in.t = "string")
        => IF findById(store, IdOf(rq[1].in.s)) # {}
           THEN /\ resp'[1].status = 409
                /\ resp'[1].id = { IdOf(rq[1].in.s) }
                /\ store' = store
           ELSE /\ resp'[1].status = 201
                /\ resp'[1].id = { IdOf(rq[1].in.s) }
                /\ findById(store', IdOf(rq[1].in.s)) # {} ]_vars

(* ---- C3 ---- *)

\* C3: in every reachable state the store holds at most one record per
\* identifier, and the identifier of every record is sha256Hex of its value
\* and equals its properties.sha256_hash.
C3_OneRecordPerIdentifier ==
  /\ \A d, e \in store : d._id = e._id => d = e
  /\ \A d \in store : d._id = sha256Hex(d.value) /\ d._id = d.properties.sha256_hash

\* Two creates of one value have raced and the store refused the second insert
C3_Witness ==
  /\ store # {}
  /\ \E c \in Clients : resp[c].error = "E11000 duplicate key error"

(* ---- C4 ---- *)

\* String(n) of an integer
RECURSIVE Decimal(_)
Decimal(n) ==
  IF n < 0 THEN << "-" >> \o Decimal(0 - n)
  ELSE IF n < 10 THEN << DigitChars[n + 1] >>
  ELSE Decimal(n \div 10) \o << DigitChars[(n % 10) + 1] >>

\* The parsed filters written as the query parameters of GET /strings
AsParameters(parsed) ==
  [ is_palindrome      |-> { IF b THEN L_true ELSE L_false : b \in parsed.is_palindrome },
    min_length         |-> { Decimal(n) : n \in parsed.min_length },
    max_length         |-> { Decimal(n) : n \in parsed.max_length },
    word_count         |-> { Decimal(n) : n \in parsed.word_count },
    contains_character |-> { << ch >> : ch \in parsed.contains_character } ]

\* C4: filterByNaturalLanguage returns exactly the records getAllStrings
\* returns for the parsed filters given as explicit parameters.
C4_NaturalLanguageListsAsExplicit ==
  Answered(1, "nl") /\ resp[1].status = 200
    => \A parsed \in resp[1].parsed :
         /\ ListRejects(controllerVersion, AsParameters(parsed)) = {}
         /\ Range(resp[1].docs)
              = find(store, ListQuery(controllerVersion, AsParameters(parsed)))

\* A sentence with two filters has been answered with a record, while the
\* store holds a record the filters exclude
C4_Witness ==
  /\ Answered(1, "nl") /\ resp[1].status = 200
  /\ \E parsed \in resp[1].parsed : parsed.min_length # {} /\ parsed.is_palindrome # {}
  /\ resp[1].docs # << >>
  /\ Range(resp[1].docs) # store

(* ---- C5 ---- *)

\* The character of a listing whose only filter is contains_character, given
\* in lower case
OnlyCharacter(c) ==
  IF rq[c].op = "list"
  THEN { t[1] : t \in { u \in rq[c].in.f.contains_character :
           /\ rq[c].in.f = [ NoParams EXCEPT !.contains_character = { u } ]
           /\ u = toLowerCase(u) } }
  ELSE { ch \in UNION { p.contains_character : p \in resp[c].parsed } :
           resp[c].parsed = { [ NoFilters EXCEPT !.contains_character = { ch } ] } }

\* C5: a listing filtered by contains_character = c alone, explicit or
\* natural-language, returns the records whose value contains c in either case.
C5_ContainsEitherCase ==
  \A op \in { "list", "nl" } :
    Answered(1, op) /\ resp[1].status = 200
      => \A ch \in OnlyCharacter(1) :
           Range(resp[1].docs)
             = { d \in store : \E i \in DOMAIN d.value : LowerChar(d.value[i]) = ch }

(* ---- C6 ---- *)

\* What the contains pattern of the deployed parser captures in a sentence
Captured(sentence) ==
  IF parserVersion = 1 THEN ContainsRule1(toLowerCase(sentence))
  ELSE ContainsRule2(toLowerCase(sentence))

\* x stands alone in q after one of the three keywords
StandsAlone(q, x) ==
  \E i \in 1..Len(q) : \E k \in DOMAIN ContainsAlternatives :
    LET j == i + Len(ContainsAlternatives[k]) + 1
    IN  /\ LitAt(q, i, ContainsAlternatives[k] \o << " " >>)
        /\ j <= Len(q)
        /\ q[j] = x
        /\ j = Len(q) \/ ~IsWordChar(q[j + 1])

\* C6: when a sentence matches the contains rule, with X standing alone, and
\* the first-vowel rule, contains_character is the captured X.
C6_ContainsBeforeFirstVowel ==
  outcome.kind # "none" /\ FirstVowelRule(toLowerCase(Sentence(query)))
    => \A x \in Captured(Sentence(query)) :
         StandsAlone(toLowerCase(Sentence(query)), x)
           => /\ outcome.kind = "ok"
              /\ \A parsed \in outcome.spec : parsed.contains_character = { x }

(* ---- C7 ---- *)

\* C7: for a sentence of white space only, which is empty after trimming,
\* parseNaturalLanguage fails with the error tagged UNPARSEABLE.
C7_BlankIsUnparseable ==
  (/\ outcome.kind # "none"
   /\ query # << >>
   /\ \A i \in DOMAIN Sentence(query) : Sentence(query)[i] = " ")
    => outcome.kind = "UNPARSEABLE"

(* ---- C8 ---- *)

\* The fragments that match no rule wherever they stand
PlainFragments == { F_apple, << "5" >>, << "1", "0" >>, << "Z" >>, << " " >> }

FieldNames ==
  { "word_count", "is_palindrome", "min_length", "max_length", "contains_character" }

\* C8: a returned FilterSpec has at least one field set, and a sentence that
\* matches no rule (and is not blank) fails with UNPARSEABLE.
C8_ReturnedSpecNotEmpty ==
  /\ outcome.kind = "ok"
       => outcome.spec # {} /\ \A parsed \in outcome.spec : \E k \in FieldNames : parsed[k] # {}
  /\ (/\ outcome.kind # "none"
      /\ Range(query) \subseteq PlainFragments
      /\ Range(query) \ { << " " >> } # {})
       => outcome.kind = "UNPARSEABLE"

\* A sentence of two words or more that matches no rule has been parsed
C8_Witness ==
  /\ outcome.kind = "UNPARSEABLE"
  /\ Len(query) >= 2
  /\ F_apple \in Range(query)

(* ---- C9 ---- *)

NumberFragments == { << "5" >>, << "1", "0" >> }

\* The decimal number written by the number fragments that start at index j
RECURSIVE NumberFrom(_, _, _)
NumberFrom(frags, j, acc) ==
  IF j <= Len(frags) /\ frags[j] \in NumberFragments
  THEN NumberFrom(frags, j + 1,
                  IF frags[j] = << "5" >> THEN 10 * acc + 5 ELSE 100 * acc + 10)
  ELSE acc

\* The N of the first "keyword N" of the sentence, {} when there is none
NumberAfter(frags, keyword) ==
  LET at == { k \in 1..(Len(frags) - 1) :
                frags[k] = keyword /\ frags[k + 1] \in NumberFragments }
  IN  IF at = {} THEN {}
      ELSE { NumberFrom(frags, (CHOOSE k \in at : \A g \in at : k <= g) + 1, 0) }

\* C9: "longer than N" yields min_length = N + 1, "shorter than N" yields
\* max_length = N - 1, and every rule that matches contributes its field to
\* the one FilterSpec returned.
C9_BoundsAndMerge ==
  outcome.kind # "none"
    => /\ (NumberAfter(query, F_longer_than) # {} \/ NumberAfter(query, F_shorter_than) # {}
             \/ F_palindromic \in Range(query) \/ F_single_word \in Range(query))
            => outcome.kind = "ok"
       /\ \A parsed \in outcome.spec :
            /\ parsed.min_length = { n + 1 : n \in NumberAfter(query, F_longer_than) }
            /\ parsed.max_length = { n - 1 : n \in NumberAfter(query, F_shorter_than) }
            /\ parsed.is_palindrome = IF F_palindromic \in Range(query) THEN { TRUE } ELSE {}
            /\ parsed.word_count = IF F_single_word \in Range(query) THEN { 1 } ELSE {}

\* "palindromic longer than 5" has been parsed
C9_Witness ==
  /\ query = << F_palindromic, F_longer_than, << "5" >> >>
  /\ outcome.kind = "ok"
  /\ \A parsed \in outcome.spec : parsed.min_length = { 6 } /\ parsed.is_palindrome = { TRUE }

(* ---- C10 ---- *)

\* C10: the contains rule takes X only when X is a letter or a digit standing
\* alone after the keyword, and a digit standing alone is accepted.
C10_SingleAlphanumericToken ==
  outcome.kind # "none" /\ ~FirstVowelRule(toLowerCase(Sentence(query)))
    => /\ \A parsed \in outcome.spec : \A x \in parsed.contains_character :
            StandsAlone(toLowerCase(Sentence(query)), x)
       /\ query = << F_contains, << "5" >> >>
            => outcome.kind = "ok"
                 /\ \A parsed \in outcome.spec : parsed.contains_character = { "5" }

(* ---- C11 ---- *)

\* The is_palindrome, min_length, max_length and word_count of the filter of
\* the client's listing: from the parameters of GET /strings, or as
\* filterByNaturalLanguage reports them
FilterOf(c) ==
  IF rq[c].op = "list"
  THEN LET f == rq[c].in.f
       IN  { [ is_palindrome |-> { s = L_true : s \in f.is_palindrome },
               min_length    |-> UNION { parseInt(s) : s \in f.min_length },
               max_length    |-> UNION { parseInt(s) : s \in f.max_length },
               word_count    |-> UNION { parseInt(s) : s \in f.word_count } ] }
  ELSE { [ is_palindrome |-> p.is_palindrome,
           min_length    |-> p.min_length,
           max_length    |-> p.max_length,
           word_count    |-> p.word_count ] : p \in resp[c].parsed }

\* The records the same kind of listing returns for the contains_character
\* of the client's filter alone (every record when the filter has none)
ByCharacterAlone(c) ==
  IF rq[c].op = "list"
  THEN find(store, ListQuery(controllerVersion,
              [ NoParams EXCEPT !.contains_character = rq[c].in.f.contains_character ]))
  ELSE UNION { find(store, NLQuery(controllerVersion,
                 [ NoFilters EXCEPT !.contains_character = p.contains_character ])) :
               p \in resp[c].parsed }

\* C11: a listing returns exactly the records for which every present field
\* of the filter holds: min_length <= properties.length <= max_length, both
\* inclusive, is_palindrome and word_count equal, contains_character matching;
\* a filter with min_length > max_length is accepted and returns no record.
C11_FieldsCombineWithAnd ==
  /\ \A op \in { "list", "nl" } :
       Answered(1, op) /\ resp[1].status = 200
         => \A s \in FilterOf(1) :
              /\ Range(resp[1].docs)
                   = { d \in ByCharacterAlone(1) :
                         /\ \A n \in s.min_length : n <= d.properties.length
                         /\ \A n \in s.max_length : d.properties.length <= n
                         /\ \A b \in s.is_palindrome : d.properties.is_palindrome = b
                         /\ \A n \in s.word_count : d.properties.word_count = n }
              /\ (\E m \in s.min_length : \E n \in s.max_length : m > n)
                   => resp[1].docs = << >>
  /\ Answered(1, "list") /\ rq[1].in \in AcceptedListInputs => resp[1].status = 200

\* GET /strings?min_length=2&max_length=1 has been answered with no record
\* while the store holds one
C11_Witness ==
  /\ Answered(1, "list") /\ resp[1].status = 200
  /\ rq[1].in.f = [ NoParams EXCEPT !.min_length = { << "2" >> },
                                    !.max_length = { << "1" >> } ]
  /\ store # {}
  /\ resp[1].docs = << >>

(* ---- C12 ---- *)

\* The string without its whitespace characters, in lower case
Normalized(s) ==
  LET kept == SelectSeq(s, LAMBDA ch : ch \notin { " ", "\t", "\n" })
  IN  [ i \in 1..Len(kept) |-> LowerChar(kept[i]) ]

\* The storage units of s read the same from both ends
Symmetric(s) ==
  LET u == Utf16(s) IN \A i \in 1..Len(u) : u[i] = u[Len(u) + 1 - i]

RECURSIVE SumOfCounts(_)
SumOfCounts(map) ==
  IF DOMAIN map = {} THEN 0
  ELSE LET ch == CHOOSE x \in DOMAIN map : TRUE
       IN  map[ch] + SumOfCounts([ x \in DOMAIN map \ { ch } |-> map[x] ])

\* C13: length is the number of logical characters of the value, the sum of
\* the counts of character_frequency_map, and unique_characters is the number
\* of keys of that map, also when a character takes two storage units.
C13_LengthCountsCharacters ==
  \A p \in analysis :
    /\ p.length = Len(Sentence(text))
    /\ p.length = SumOfCounts(p.character_frequency_map)
    /\ p.unique_characters = Cardinality(DOMAIN p.character_frequency_map)

(* ---- C14 ---- *)

\* C14: every listing returns its records from the newest created_at to the
\* oldest, and two listings of the same store content return the records of
\* equal created_at in the same order.
C14_NewestFirstAndConsistent ==
  /\ \A c \in Clients : \A op \in { "list", "nl" } :
       Answered(c, op) /\ resp[c].status = 200
         => \A i, j \in DOMAIN resp[c].docs :
              i < j => resp[c].docs[i].created_at >= resp[c].docs[j].created_at
  /\ (/\ \A c \in Clients : Answered(c, "list") /\ resp[c].status = 200
                              /\ rq[c].in = AllStrings
      /\ Range(resp[1].docs) = Range(resp[2].docs))
       => resp[1].docs = resp[2].docs

(* ---- C15 ---- *)

\* C15: a stored record keeps its value, properties and created_at through
\* every step of every request, until a deleteString of its own value removes
\* it: rejected creates, lookups, listings, natural-language queries and
\* creates and deletes of other values leave it in the store as it is.
C15_RecordUnchangedWhileStored ==
  [][ \A d \in store :
        \/ d \in store'
        \/ \E c \in Clients :
             /\ pc[c] = "delete" /\ pc'[c] = "idle"
             /\ rq[c].in.s = d.value
             /\ resp'[c].status = 204 ]_vars

\* A deleteString has been answered 204 and another record is still stored
C15_Witness ==
  /\ Answered(1, "delete") /\ resp[1].status = 204
  /\ \E d \in store : d.value # rq[1].in.s

(* ---- C16 ---- *)

\* C16: a deleteString of a value without a record answers NotFound (404) and
\* leaves the store as it is; a deleteString of a stored value answers 204
\* and removes the record; the getStringByValue or deleteString of v that
\* follows a successful deleteString(v) answers NotFound, and the createString
\* of v that follows it answers 201 with the identifier of v and stores v.
C16_DeleteThenNotFoundThenCreate ==
  [][ pc'[1] = "idle" /\ pc[1] # "idle" =>
        LET id == IdOf(rq[1].in.s)
        IN  /\ (pc[1] = "delete" /\ findById(store, id) = {})
                 => resp'[1].status = 404 /\ store' = store
            /\ (pc[1] = "delete" /\ findById(store, id) # {})
                 => resp'[1].status = 204 /\ findById(store', id) = {}
            /\ \A v \in rq[1].after :
                 /\ pc[1] \in { "get", "delete" } => resp'[1].status = 404
                 /\ pc[1] \in { "create", "build", "insert" }
                      => /\ resp'[1].status = 201
                         /\ resp'[1].id = { IdOf(v) }
                         /\ \E d \in store' : d._id = IdOf(v) /\ d.value = v ]_vars

\* The createString of a value right after its successful deleteString has
\* found no record and is about to insert
C16_Witness ==
  /\ pc[1] = "insert"
  /\ rq[1].after = { rq[1].in.s }
  /\ findById(store, IdOf(rq[1].in.s)) = {}

====
